---- MODULE Spec2Model ----
(***************************************************************************)
(* The benchmark tools of foldhash.                                        *)
(*                                                                         *)
(*   tools/extract-bench-results.py  (the Extractor): walks                *)
(*       target/criterion, and for every new/sample.json prints one CSV    *)
(*       row bench,distr,hash,ns.                                          *)
(*   tools/format-bench-results.py   (the Aggregator): reads that CSV,     *)
(*       renames, rescales, joins against the three ordering tables,       *)
(*       sorts, prints the pivoted table and the rank summary.             *)
(*                                                                         *)
(* Numbers: Python's t / n and polars' ns / factor are float divisions.    *)
(* On the small integers used here two quotients are equal as doubles      *)
(* exactly when they are equal as fractions and compare as the fractions   *)
(* do, so a quotient is a fraction in lowest terms, [n |-> num, d |-> den].*)
(* Text: a string is a sequence of one-character strings.                  *)
(***************************************************************************)
EXTENDS Integers, Sequences, FiniteSets, TLC

VARIABLES
    paths,      \* Extractor: the (benchmark.json, sample.json) pairs, in glob order
    idx,        \* Extractor: position of the for loop in paths
    stdout,     \* Extractor: the lines printed so far
    exc,        \* Extractor: the exception that ended the run ("" if none)
    pc,         \* Extractor: "start" | "loop" | "done" | "raised" | "idle"
    csv,        \* Aggregator: the rows of the file sys.argv[1]
    df,         \* Aggregator: the frame built by lines 38-48
    report,     \* Aggregator: what has been printed (table, summary)
    apc         \* Aggregator: "scan" | ... | "done" | "raised" | "idle"

vars == <<paths, idx, stdout, exc, pc, csv, df, report, apc>>

extractorVars == <<paths, idx, stdout, exc, pc>>
aggregatorVars == <<csv, df, report, apc>>

----------------------------------------------------------------------------
(* Bounds of the model.                                                    *)

MaxConfigs == 3
MaxSamples == 7
MaxTwoValued == 11
MaxBlock == 24
MaxLabelLen == 4
MaxLabelConfigs == 2
MaxRecords == 3
MaxRankRecords == 4

----------------------------------------------------------------------------
(* Generic helpers.                                                        *)

SeqsUpTo(S, n) == UNION {[1..k -> S] : k \in 0..n}

Min(a, b) == IF a < b THEN a ELSE b

RECURSIVE Gcd(_, _)
Gcd(a, b) == IF b = 0 THEN a ELSE Gcd(b, a % b)

\* Float division of non-negative a by positive b, as a fraction in lowest terms.
TrueDiv(a, b) == LET g == Gcd(a, b) IN [n |-> a \div g, d |-> b \div g]

RatLess(x, y) == x.n * y.d < y.n * x.d
RatLeq(x, y) == x.n * y.d <= y.n * x.d

----------------------------------------------------------------------------
(* Text.                                                                   *)

DigitChars == <<"0", "1", "2", "3", "4", "5", "6", "7", "8", "9">>

RECURSIVE NatStr(_)
NatStr(n) ==
    IF n < 10 THEN <<DigitChars[n + 1]>>
    ELSE NatStr(n \div 10) \o <<DigitChars[(n % 10) + 1]>>

\* str(float) of a quotient whose denominator is 1 or 2 (the sample documents
\* of the model have iters in 1..2): "1.0", "1.5", "11.0", ...
FloatStr(q) ==
    NatStr(q.n \div q.d) \o <<".">> \o (IF q.d = 1 THEN <<"0">> ELSE <<"5">>)

\* Index of the first occurrence of c in s, 0 when there is none.
Find(s, c) ==
    IF \E i \in 1..Len(s) : s[i] = c
    THEN CHOOSE i \in 1..Len(s) : s[i] = c /\ \A j \in 1..(i - 1) : s[j] # c
    ELSE 0

\* Python's s.split(sep, maxsplit) for a one-character sep.
RECURSIVE Split(_, _, _)
Split(s, sep, maxsplit) ==
    LET i == Find(s, sep) IN
    IF maxsplit = 0 \/ i = 0 THEN <<s>>
    ELSE <<SubSeq(s, 1, i - 1)>> \o Split(SubSeq(s, i + 1, Len(s)), sep, maxsplit - 1)

\* Python's sep.join(parts).
RECURSIVE Join(_, _)
Join(parts, sep) ==
    IF parts = <<>> THEN <<>>
    ELSE IF Len(parts) = 1 THEN parts[1]
    ELSE parts[1] \o <<sep>> \o Join(Tail(parts), sep)

\* The value of one decimal digit character, -1 for any other character.
DigitVal(c) == IF \E v \in 0..9 : DigitChars[v + 1] = c
               THEN CHOOSE v \in 0..9 : DigitChars[v + 1] = c
               ELSE -1

RECURSIVE ParseNat(_)
ParseNat(s) == IF s = <<>> THEN 0 ELSE 10 * ParseNat(SubSeq(s, 1, Len(s) - 1)) + DigitVal(s[Len(s)])

\* Whether the reader takes the text for a number: digits, a point, one digit.
IsFloatText(s) ==
    /\ Len(s) >= 3
    /\ s[Len(s) - 1] = "."
    /\ \A i \in (1..Len(s)) \ {Len(s) - 1} : DigitVal(s[i]) >= 0

\* The float a reader parses from such a text.
ParseFloat(s) == TrueDiv(10 * ParseNat(SubSeq(s, 1, Len(s) - 2)) + DigitVal(s[Len(s)]), 10)

\* The fields of one line of the CSV file, as pl.scan_csv separates them.
ReadRow(line) == Split(line, ",", Len(line))

----------------------------------------------------------------------------
(* The Extractor, tools/extract-bench-results.py.                          *)

header == <<"b","e","n","c","h",",","d","i","s","t","r",",","h","a","s","h",",","n","s">>

\* zip(samples["times"], samples["iters"]): pairs up to the shorter length.
Zip(times, iters) == [i \in 1..Min(Len(times), Len(iters)) |-> <<times[i], iters[i]>>]

\* The stable merge of two ascending sequences: the middle element of a goes
\* after the smaller elements of b, the rest is merged on either side of it.
RECURSIVE Merge(_, _)
Merge(a, b) ==
    IF a = <<>> THEN b
    ELSE IF b = <<>> THEN a
    ELSE LET m == (Len(a) + 1) \div 2
             k == Cardinality({j \in 1..Len(b) : RatLess(b[j], a[m])})
         IN Merge(SubSeq(a, 1, m - 1), SubSeq(b, 1, k)) \o <<a[m]>>
                \o Merge(SubSeq(a, m + 1, Len(a)), SubSeq(b, k + 1, Len(b)))

\* A sort that leaves the sequence as it is: the mutant of sorted.
Unsorted(s) == s

\* sorted(list of floats): ascending, by merging the sorted halves.
RECURSIVE sorted(_)
sorted(s) ==
    IF Len(s) <= 1 THEN s
    ELSE LET h == Len(s) \div 2
         IN Merge(sorted(SubSeq(s, 1, h)), sorted(SubSeq(s, h + 1, Len(s))))

\* The median position: the mutant of PercentileIndex.
MedianIndex(n) == n \div 2

\* len(sample_times) // 10, a 0-based index.
PercentileIndex(n) == n \div 10

\* sample_times of line 16, given the zipped pairs.
sample_times(pairs) == sorted([i \in 1..Len(pairs) |-> TrueDiv(pairs[i][1], pairs[i][2])])

\* The row of line 18.
RowText(name, robust) == Join(Split(name, "-", 2), ",") \o <<",">> \o FloatStr(robust)

\* The body of the for loop (lines 9-18) on one path: the exception it raises
\* ("" when it raises none) and the line it prints.
LoopBody(doc) ==
    LET bm == doc.benchmark
        sm == doc.sample
        pairs == Zip(sm.times, sm.iters)
    IN
    IF bm.kind = "missing" THEN [exc |-> "FileNotFoundError", line |-> <<>>]
    ELSE IF bm.kind = "invalid" THEN [exc |-> "JSONDecodeError", line |-> <<>>]
    ELSE IF bm.kind = "nokey" THEN [exc |-> "KeyError", line |-> <<>>]
    ELSE IF sm.kind = "invalid" THEN [exc |-> "JSONDecodeError", line |-> <<>>]
    ELSE IF sm.kind = "nokey" THEN [exc |-> "KeyError", line |-> <<>>]
    ELSE IF \E i \in 1..Len(pairs) : pairs[i][2] = 0
        THEN [exc |-> "ZeroDivisionError", line |-> <<>>]
    ELSE IF PercentileIndex(Len(pairs)) >= Len(pairs)
        THEN [exc |-> "IndexError", line |-> <<>>]
    ELSE [exc |-> "",
          line |-> RowText(bm.function_id,
                           sample_times(pairs)[PercentileIndex(Len(pairs)) + 1])]

\* Line 7.
PrintHeader ==
    /\ pc = "start"
    /\ stdout' = <<header>>
    /\ idx' = 1
    /\ pc' = "loop"
    /\ UNCHANGED <<paths, exc, aggregatorVars>>

\* The loop with the exception caught and the configuration skipped: the
\* mutant of ProcessConfig.
ProcessConfigSkipping ==
    /\ pc = "loop"
    /\ idx <= Len(paths)
    /\ LET r == LoopBody(paths[idx]) IN
        /\ stdout' = IF r.exc = "" THEN Append(stdout, r.line) ELSE stdout
        /\ idx' = idx + 1
    /\ UNCHANGED <<paths, pc, exc, aggregatorVars>>

\* One iteration of the for loop, lines 8-18. An exception is not caught: it
\* ends the run.
ProcessConfig ==
    /\ pc = "loop"
    /\ idx <= Len(paths)
    /\ LET r == LoopBody(paths[idx]) IN
        IF r.exc = ""
        THEN /\ stdout' = Append(stdout, r.line)
             /\ idx' = idx + 1
             /\ UNCHANGED <<pc, exc>>
        ELSE /\ pc' = "raised"
             /\ exc' = r.exc
             /\ UNCHANGED <<stdout, idx>>
    /\ UNCHANGED <<paths, aggregatorVars>>

\* The glob is exhausted: the script ends.
LoopExit ==
    /\ pc = "loop"
    /\ idx > Len(paths)
    /\ pc' = "done"
    /\ UNCHANGED <<paths, idx, stdout, exc, aggregatorVars>>

ExtractorNext == PrintHeader \/ ProcessConfig \/ LoopExit

AggregatorIdle == csv = <<>> /\ df = <<>> /\ report = <<>> /\ apc = "idle"

ExtractorStart == idx = 0 /\ stdout = <<>> /\ exc = "" /\ pc = "start" /\ AggregatorIdle

\* The documents found under one path.
BenchmarkDoc(kind, function_id) == [kind |-> kind, function_id |-> function_id]
SampleDoc(kind, times, iters) == [kind |-> kind, times |-> times, iters |-> iters]
Config(bm, sm) == [benchmark |-> bm, sample |-> sm]

GoodLabel == <<"a", "-", "b", "-", "c">>
GoodSample == SampleDoc("ok", <<3>>, <<2>>)

\* Runs over several configurations, well-formed and malformed.
RunSamples ==
    {SampleDoc("invalid", <<>>, <<>>), SampleDoc("nokey", <<>>, <<>>)}
    \cup {SampleDoc("ok", t, n) : t \in {<<>>, <<3>>, <<3, 4>>},
                                 n \in {<<>>, <<2>>, <<2, 1>>, <<0>>}}

RunDocs ==
    {Config(BenchmarkDoc(k, <<>>), GoodSample) : k \in {"missing", "invalid", "nokey"}}
    \cup {Config(BenchmarkDoc("ok", GoodLabel), s) : s \in RunSamples}

Init == paths \in SeqsUpTo(RunDocs, MaxConfigs) /\ ExtractorStart

Spec == Init /\ [][ExtractorNext]_vars

\* Runs over one configuration. The sample sets: every sequence of up to
\* MaxSamples pairs with three quotients (1, 1.5, 2), every sequence of up to
\* MaxTwoValued pairs with two quotients, and the sequences of up to MaxBlock
\* pairs made of a run of one pair followed by a run of another.
SamplePairs == {<<2, 2>>, <<3, 2>>, <<2, 1>>}
TwoPairs == {<<3, 2>>, <<2, 1>>}

Blocks ==
    {[i \in 1..n |-> IF i <= a THEN x ELSE y] :
        n \in 1..MaxBlock, a \in 0..MaxBlock, x \in SamplePairs, y \in SamplePairs}

SampleSets == SeqsUpTo(SamplePairs, MaxSamples) \cup SeqsUpTo(TwoPairs, MaxTwoValued) \cup Blocks

SampleOfPairs(pairs) ==
    SampleDoc("ok", [i \in 1..Len(pairs) |-> pairs[i][1]], [i \in 1..Len(pairs) |-> pairs[i][2]])

InitSamples ==
    /\ \E pairs \in SampleSets :
          paths = <<Config(BenchmarkDoc("ok", GoodLabel), SampleOfPairs(pairs))>>
    /\ ExtractorStart

SpecSamples == InitSamples /\ [][ExtractorNext]_vars

\* Runs over one configuration whose per-iteration latencies are 1, 2, ..., 100,
\* ascending or descending, rotated by any amount, each batch of 1 or of 2
\* iterations; and the run over ten batches of time 100 and 1 iteration.
Rotated(s, r) == [i \in 1..Len(s) |-> s[((i - 1 + r) % Len(s)) + 1]]

HundredLatencies ==
    {Rotated([i \in 1..100 |-> IF up THEN <<i * n, n>> ELSE <<(101 - i) * n, n>>], r) :
        up \in BOOLEAN, n \in 1..2, r \in 0..99}

ConstantSamples == [i \in 1..10 |-> <<100, 1>>]

InitScenario ==
    /\ \E pairs \in HundredLatencies \cup {ConstantSamples} :
          paths = <<Config(BenchmarkDoc("ok", GoodLabel), SampleOfPairs(pairs))>>
    /\ ExtractorStart

SpecScenario == InitScenario /\ [][ExtractorNext]_vars

\* Runs over one or two configurations with every function_id of up to
\* MaxLabelLen characters among a letter, the dash and the comma.
LabelChars == {"a", "-", ","}

InitLabels ==
    /\ \E ids \in SeqsUpTo(SeqsUpTo(LabelChars, MaxLabelLen), MaxLabelConfigs) :
          /\ ids # <<>>
          /\ paths = [k \in 1..Len(ids) |-> Config(BenchmarkDoc("ok", ids[k]), GoodSample)]
    /\ ExtractorStart

SpecLabels == InitLabels /\ [][ExtractorNext]_vars

----------------------------------------------------------------------------
(* The Aggregator, tools/format-bench-results.py.                          *)

MAP_SIZE == 1000

\* A divisor without the factor 10: the mutant of SET_BUILD_FACTOR.
SetBuildFactorOfOneInsert == MAP_SIZE

SET_BUILD_FACTOR == 10 * MAP_SIZE

distr_order ==
    <<"u32", "u32pair", "u64", "u64lobits", "u64hibits", "u64pair", "ipv4", "ipv6",
      "rgba", "strenglishword", "struuid", "strurl", "strdate", "accesslog",
      "kilobyte", "tenkilobyte">>

name_repl ==
    [h \in {"foldhash-fast", "foldhash-quality"} |->
        IF h = "foldhash-fast" THEN "foldhash-f" ELSE "foldhash-q"]

bench_order == <<"hashonly", "lookupmiss", "lookuphit", "setbuild">>
hash_order == <<"foldhash-f", "foldhash-q", "fxhash", "ahash", "siphash">>

\* The *_order_idx column of an ordering frame: range(len(order)), or -1 for a
\* value the frame has no row for.
OrderIdx(order, v) ==
    IF \E i \in 1..Len(order) : order[i] = v
    THEN (CHOOSE i \in 1..Len(order) : order[i] = v) - 1
    ELSE -1

\* The rows that found a partner in each ordering frame, in order.
RECURSIVE MatchedRows(_)
MatchedRows(s) ==
    IF s = <<>> THEN <<>>
    ELSE IF Head(s).distr_order_idx >= 0 /\ Head(s).bench_order_idx >= 0
            /\ Head(s).hash_order_idx >= 0
         THEN <<Head(s)>> \o MatchedRows(Tail(s))
         ELSE MatchedRows(Tail(s))

\* The distinct elements of s in order of first appearance.
RECURSIVE Unique(_)
Unique(s) ==
    IF s = <<>> THEN <<>>
    ELSE LET front == Unique(SubSeq(s, 1, Len(s) - 1))
             x == s[Len(s)]
         IN IF \E i \in 1..Len(front) : front[i] = x THEN front ELSE Append(front, x)

\* Line 40: pl.col.hash.replace(name_repl).
Replace(h) == IF h \in DOMAIN name_repl THEN name_repl[h] ELSE h

WithReplacedHash(frame) == [i \in 1..Len(frame) |-> [frame[i] EXCEPT !.hash = Replace(@)]]

\* Line 41: ns / when(bench == "setbuild").then(SET_BUILD_FACTOR).otherwise(1).
WithRescaledNs(frame) ==
    [i \in 1..Len(frame) |->
        [frame[i] EXCEPT !.ns =
            TrueDiv(@, IF frame[i].bench = "setbuild" THEN SET_BUILD_FACTOR ELSE 1)]]

\* Lines 42-44: the three inner joins. A row with no partner in an ordering
\* frame is not in the result.
JoinOrders(frame) ==
    LET withIdx == [i \in 1..Len(frame) |->
                        [distr |-> frame[i].distr, bench |-> frame[i].bench,
                         hash |-> frame[i].hash, ns |-> frame[i].ns,
                         distr_order_idx |-> OrderIdx(distr_order, frame[i].distr),
                         bench_order_idx |-> OrderIdx(bench_order, frame[i].bench),
                         hash_order_idx |-> OrderIdx(hash_order, frame[i].hash)]]
    IN MatchedRows(withIdx)

\* The order of line 45: distr_order_idx, distr, bench_order_idx, hash_order_idx.
\* Rows with the same distr_order_idx have the same distr.
KeyLeq(r, q) ==
    \/ r.distr_order_idx < q.distr_order_idx
    \/ /\ r.distr_order_idx = q.distr_order_idx
       /\ \/ r.bench_order_idx < q.bench_order_idx
          \/ /\ r.bench_order_idx = q.bench_order_idx
             /\ r.hash_order_idx <= q.hash_order_idx

InsertAt(s, p, r) == SubSeq(s, 1, p) \o <<r>> \o SubSeq(s, p + 1, Len(s))

\* Line 45: the sort keeps no order among rows with equal keys, so every
\* arrangement that is ascending in the keys is an outcome.
RECURSIVE SortOutcomes(_)
SortOutcomes(frame) ==
    IF frame = <<>> THEN {<<>>}
    ELSE UNION {
            {InsertAt(s, p, frame[Len(frame)]) :
                p \in {p \in 0..Len(s) :
                        /\ \A j \in 1..p : KeyLeq(s[j], frame[Len(frame)])
                        /\ \A j \in (p + 1)..Len(s) : KeyLeq(frame[Len(frame)], s[j])}}
            : s \in SortOutcomes(SubSeq(frame, 1, Len(frame) - 1))}

\* Line 46: select(distr, bench, hash, ns).
SelectColumns(frame) ==
    [i \in 1..Len(frame) |->
        [distr |-> frame[i].distr, bench |-> frame[i].bench,
         hash |-> frame[i].hash, ns |-> frame[i].ns]]

\* Lines 38-48: the lazy query, run by collect().
Collect ==
    /\ apc = "scan"
    /\ \E s \in SortOutcomes(JoinOrders(WithRescaledNs(WithReplacedHash(csv)))) :
          df' = SelectColumns(s)
    /\ apc' = "collected"
    /\ UNCHANGED <<csv, report, extractorVars>>

\* df.pivot("hash", values="ns") has no aggregate function: two rows for one
\* cell raise an error.
HasDuplicateCell(frame) ==
    \E i, j \in 1..Len(frame) :
        /\ i < j
        /\ frame[i].distr = frame[j].distr
        /\ frame[i].bench = frame[j].bench
        /\ frame[i].hash = frame[j].hash

\* df.pivot("hash", values="ns"): the index is the remaining columns (distr,
\* bench), one row per index value and one column per hash value, both in
\* order of first appearance; a cell is <<ns>>, or <<>> (null) when the frame
\* has no row for it.
Pivot(frame) ==
    LET on == Unique([i \in 1..Len(frame) |-> frame[i].hash])
        index == Unique([i \in 1..Len(frame) |-> <<frame[i].distr, frame[i].bench>>])
        Cell(g, h) ==
            LET at == {i \in 1..Len(frame) :
                        <<frame[i].distr, frame[i].bench>> = g /\ frame[i].hash = h}
            IN IF at = {} THEN <<>> ELSE <<frame[CHOOSE i \in at : TRUE].ns>>
    IN [columns |-> on,
        rows |-> [k \in 1..Len(index) |->
                    [distr |-> index[k][1], bench |-> index[k][2],
                     cells |-> [c \in 1..Len(on) |-> Cell(index[k], on[c])]]]]

\* Line 51.
PrintPivot ==
    /\ apc = "collected"
    /\ IF HasDuplicateCell(df)
       THEN apc' = "raised" /\ UNCHANGED report
       ELSE apc' = "pivoted" /\ report' = <<Pivot(df)>>
    /\ UNCHANGED <<csv, df, extractorVars>>

\* Twice the rank of row i counted from the largest value: the mutant of Rank2.
Rank2Descending(frame, i) ==
    LET peers == {j \in 1..Len(frame) :
                    frame[j].distr = frame[i].distr /\ frame[j].bench = frame[i].bench}
    IN 2 * Cardinality({j \in peers : RatLess(frame[i].ns, frame[j].ns)})
       + Cardinality({j \in peers : frame[j].ns = frame[i].ns}) + 1

\* Line 54: pl.col.ns.rank().over("distr", "bench"), the average method: a
\* value's rank is the mean of the 1-based positions its equals take in the
\* ascending order of its group. Twice that rank, to stay in the integers.
Rank2(frame, i) ==
    LET peers == {j \in 1..Len(frame) :
                    frame[j].distr = frame[i].distr /\ frame[j].bench = frame[i].bench}
    IN 2 * Cardinality({j \in peers : RatLess(frame[j].ns, frame[i].ns)})
       + Cardinality({j \in peers : frame[j].ns = frame[i].ns}) + 1

RECURSIVE Sum(_)
Sum(s) == IF s = <<>> THEN 0 ELSE Head(s) + Sum(Tail(s))

RECURSIVE Product(_)
Product(s) == IF s = <<>> THEN 1 ELSE Head(s) * Product(Tail(s))

\* The indices of the rows of hash h, ascending.
RECURSIVE RowsOfHash(_, _, _)
RowsOfHash(frame, h, from) ==
    IF from > Len(frame) THEN <<>>
    ELSE IF frame[from].hash = h THEN <<from>> \o RowsOfHash(frame, h, from + 1)
    ELSE RowsOfHash(frame, h, from + 1)

\* Lines 53-61: one column per hash in order of first appearance; avg_rank is
\* the mean of the hash's ranks; geometric_mean, exp(mean(log(ns))), is the
\* root-th root of prod.
Summary(frame) ==
    LET hashes == Unique([i \in 1..Len(frame) |-> frame[i].hash])
        Of(h) == RowsOfHash(frame, h, 1)
    IN [columns |-> hashes,
        avg_rank |-> [k \in 1..Len(hashes) |->
            LET rows == Of(hashes[k])
            IN TrueDiv(Sum([m \in 1..Len(rows) |-> Rank2(frame, rows[m])]), 2 * Len(rows))],
        geometric_mean |-> [k \in 1..Len(hashes) |->
            LET rows == Of(hashes[k])
            IN [prod |-> TrueDiv(Product([m \in 1..Len(rows) |-> frame[rows[m]].ns.n]),
                                 Product([m \in 1..Len(rows) |-> frame[rows[m]].ns.d])),
                root |-> Len(rows)]]]

\* Lines 52-61. transpose() refuses a frame without rows ("unable to
\* transpose an empty DataFrame"), which is what group_by leaves of an empty df.
PrintSummary ==
    /\ apc = "pivoted"
    /\ IF df = <<>>
       THEN apc' = "raised" /\ UNCHANGED report
       ELSE apc' = "done" /\ report' = Append(report, Summary(df))
    /\ UNCHANGED <<csv, df, extractorVars>>

AggregatorNext == Collect \/ PrintPivot \/ PrintSummary

ExtractorIdle == paths = <<>> /\ idx = 0 /\ stdout = <<>> /\ exc = "" /\ pc = "idle"

AggregatorStart == df = <<>> /\ report = <<>> /\ apc = "scan" /\ ExtractorIdle

Record(distr, bench, hash, ns) == [distr |-> distr, bench |-> bench, hash |-> hash, ns |-> ns]

\* Files of up to MaxRecords rows: rows with known labels, and rows with one
\* label no ordering table has ("zzz", "xxhash").
KnownRecords ==
    {Record("u32", b, h, ns) : b \in {"hashonly", "setbuild"},
                               h \in {"foldhash-fast", "foldhash-f"}, ns \in {5, 10000}}

UnknownRecords ==
    {Record("zzz", b, h, 5) : b \in {"hashonly", "setbuild"}, h \in {"foldhash-fast", "foldhash-f"}}
    \cup {Record("u32", "zzz", h, 5) : h \in {"foldhash-fast", "foldhash-f"}}
    \cup {Record("u32", b, "xxhash", 5) : b \in {"hashonly", "setbuild"}}

InitAggregator ==
    /\ csv \in SeqsUpTo(KnownRecords \cup UnknownRecords, MaxRecords)
    /\ AggregatorStart

SpecAggregator == InitAggregator /\ [][AggregatorNext]_vars

\* Files of up to MaxRankRecords rows with known labels: two distributions,
\* three hashes, two latencies.
RankRecords ==
    {Record(d, "lookuphit", h, ns) : d \in {"u32", "u64"},
                                     h \in {"foldhash-fast", "fxhash", "siphash"}, ns \in {5, 10}}

InitRank ==
    /\ csv \in SeqsUpTo(RankRecords, MaxRankRecords)
    /\ AggregatorStart

SpecRank == InitRank /\ [][AggregatorNext]_vars

----------------------------------------------------------------------------
(* Properties of the Extractor.                                            *)

\* The rows printed so far, without the header.
Rows == IF stdout = <<>> THEN <<>> ELSE Tail(stdout)

\* The configuration cannot be processed: a document is absent, unparsable or
\* lacks a field, an iteration count is zero, or no pair is left to choose from.
ProcessingFails(doc) ==
    \/ doc.benchmark.kind # "ok"
    \/ doc.sample.kind # "ok"
    \/ \E i \in 1..Min(Len(doc.sample.times), Len(doc.sample.iters)) : doc.sample.iters[i] = 0
    \/ Len(doc.sample.times) = 0
    \/ Len(doc.sample.iters) = 0

FirstFailure ==
    IF \E k \in 1..Len(paths) : ProcessingFails(paths[k])
    THEN CHOOSE k \in 1..Len(paths) :
            ProcessingFails(paths[k]) /\ \A j \in 1..(k - 1) : ~ProcessingFails(paths[j])
    ELSE Len(paths) + 1

PairLess(p, q) == p[1] * q[2] < q[1] * p[2]
PairLeq(p, q) == p[1] * q[2] <= q[1] * p[2]

\* The pair whose quotient stands at 0-based position k of the ascending order
\* of the quotients: at most k quotients are smaller, more than k are no larger.
OrderStatistic(pairs, k) ==
    CHOOSE p \in {pairs[i] : i \in 1..Len(pairs)} :
        /\ Cardinality({i \in 1..Len(pairs) : PairLess(pairs[i], p)}) <= k
        /\ Cardinality({i \in 1..Len(pairs) : PairLeq(pairs[i], p)}) > k

\* The sample document with the pairs at positions i and i + 1 exchanged.
SwapAdjacent(doc, i) ==
    LET sw(s) == [j \in 1..Len(s) |-> IF j = i THEN s[i + 1] ELSE IF j = i + 1 THEN s[i] ELSE s[j]]
    IN Config(doc.benchmark, SampleDoc("ok", sw(doc.sample.times), sw(doc.sample.iters)))

\* C2: for a sample set of n >= 1 pairs the printed ns is the quotient at 0-based
\* position floor(n/10) of the ascending quotients, and exchanging any two
\* neighbouring pairs of the input prints the same row. Every sequence of pairs
\* is an input of SpecSamples, and the exchanges of neighbours generate every
\* permutation, so the row is the same for every permutation.
C2_RobustIsTenthPercentile ==
    (pc = "done" /\ Len(paths) = 1 /\ Len(paths[1].sample.times) >= 1) =>
        LET sm == paths[1].sample
            pairs == Zip(sm.times, sm.iters)
            n == Len(pairs)
            p == OrderStatistic(pairs, n \div 10)
            fields == ReadRow(stdout[2])
        IN /\ Len(stdout) = 2
           /\ IsFloatText(fields[Len(fields)])
           /\ LET ns == ParseFloat(fields[Len(fields)]) IN ns.n * p[2] = p[1] * ns.d
           /\ \A i \in 1..(n - 1) : LoopBody(SwapAdjacent(paths[1], i)).line = stdout[2]

\* Ten pairs whose smallest quotient, 1.5, occurs once, in last place: the
\* printed value is the second smallest, 2.0.
C2_Witness ==
    /\ pc = "done"
    /\ Len(paths) = 1
    /\ paths[1].sample.times = <<2, 2, 2, 2, 2, 2, 2, 2, 2, 3>>
    /\ paths[1].sample.iters = <<1, 1, 1, 1, 1, 1, 1, 1, 1, 2>>
    /\ ReadRow(stdout[2])[4] = <<"2", ".", "0">>

\* C4: a row is printed only for a sample document whose times and iters have
\* the same, non-zero length.
C4_MalformedShapeIsFatal ==
    \A k \in 1..Len(Rows) :
        /\ Len(paths[k].sample.times) = Len(paths[k].sample.iters)
        /\ Len(paths[k].sample.times) >= 1

\* The logical fields of a function_id: the text before the first dash, the
\* text between the first and the second dash, the whole remainder.
HasThreeParts(name) ==
    LET d1 == Find(name, "-") IN
    d1 > 0 /\ Find(SubSeq(name, d1 + 1, Len(name)), "-") > 0

LabelFields(name) ==
    LET d1 == Find(name, "-")
        rest == SubSeq(name, d1 + 1, Len(name))
        d2 == Find(rest, "-")
    IN <<SubSeq(name, 1, d1 - 1), SubSeq(rest, 1, d2 - 1), SubSeq(rest, d2 + 1, Len(rest))>>

\* The row of configuration k reads back as the four fields of that
\* configuration (GoodSample's estimate is 3/2).
ReadsBack(k) ==
    LET f == ReadRow(Rows[k])
        name == paths[k].benchmark.function_id
    IN /\ Len(f) = 4
       /\ HasThreeParts(name)
       /\ <<f[1], f[2], f[3]>> = LabelFields(name)
       /\ IsFloatText(f[4])
       /\ ParseFloat(f[4]) = [n |-> 3, d |-> 2]

\* C7: for every function_id, the rows read back number as many as the
\* configurations written, and each reads back as (bench, distr, hash, ns).
C7_RowsRoundTrip ==
    pc = "done" => Len(Rows) = Len(paths) /\ \A k \in 1..Len(Rows) : ReadsBack(k)

\* The round trip of the rows whose function_id has two dashes at least and
\* no comma.
RoundTripOfWellFormedLabels ==
    pc = "done" =>
        \A k \in 1..Len(Rows) :
            LET name == paths[k].benchmark.function_id IN
            (HasThreeParts(name) /\ Find(name, ",") = 0) => ReadsBack(k)

\* The sample set's quotients are exactly 1, 2, ..., 100, each once.
IsHundredLatencies(sm) ==
    /\ Len(sm.times) = 100
    /\ Len(sm.iters) = 100
    /\ \A v \in 1..100 : \E i \in 1..100 : sm.times[i] = v * sm.iters[i]

IsConstantSamples(sm) ==
    /\ sm.times = [i \in 1..10 |-> 100]
    /\ sm.iters = [i \in 1..10 |-> 1]

\* The ns field of the only row printed.
PrintedNs == LET f == ReadRow(stdout[2]) IN ParseFloat(f[Len(f)])

\* C9 as stated: latencies 1..100 give the estimate 10, ten batches of time
\* 100 and 1 iteration give 100.
C9_EstimateIsTen ==
    (pc = "done" /\ Len(stdout) = 2) =>
        /\ IsHundredLatencies(paths[1].sample) => PrintedNs = [n |-> 10, d |-> 1]
        /\ IsConstantSamples(paths[1].sample) => PrintedNs = [n |-> 100, d |-> 1]

\* C9 amended: latencies 1..100 give the estimate 11 (the element at 0-based
\* position 10), ten batches of time 100 and 1 iteration give 100.
C9_EstimateIsEleven ==
    (pc = "done" /\ Len(stdout) = 2) =>
        /\ IsHundredLatencies(paths[1].sample) => PrintedNs = [n |-> 11, d |-> 1]
        /\ IsConstantSamples(paths[1].sample) => PrintedNs = [n |-> 100, d |-> 1]

\* The latencies 1..100 in descending order, rotated, two iterations a batch.
C9_Witness ==
    /\ pc = "done"
    /\ Len(stdout) = 2
    /\ IsHundredLatencies(paths[1].sample)
    /\ paths[1].sample.times[1] = 60
    /\ paths[1].sample.iters[1] = 2
    /\ paths[1].sample.times[2] = 58
    /\ ReadRow(stdout[2])[4] = <<"1", "1", ".", "0">>

\* C10: the header comes first; after it one row stands for each configuration
\* before the loop position, none of which failed; a run that raised stands at
\* the first failing configuration with the rows of the earlier ones printed
\* and nothing after them; a run that ended normally met no failure and printed
\* a row for every configuration.
C10_StopsAtFirstFailure ==
    /\ pc = "start" => stdout = <<>>
    /\ pc # "start" =>
          /\ stdout[1] = header
          /\ Len(Rows) = idx - 1
          /\ idx <= FirstFailure
    /\ pc = "raised" => idx = FirstFailure /\ idx <= Len(paths) /\ exc # ""
    /\ pc = "done" => FirstFailure = Len(paths) + 1 /\ Len(Rows) = Len(paths) /\ exc = ""
    /\ pc = "loop" => exc = ""

\* A run of three configurations that raised at the second one, the third
\* being well-formed: one row was printed.
C10_Witness ==
    /\ pc = "raised"
    /\ Len(paths) = 3
    /\ idx = 2
    /\ ~ProcessingFails(paths[3])
    /\ Len(stdout) = 2

----------------------------------------------------------------------------
(* Properties of the Aggregator.                                           *)

InTable(order, v) == \E i \in 1..Len(order) : order[i] = v

\* The hash name of a record after the rename mapping.
Renamed(r) ==
    IF r.hash = "foldhash-fast" THEN "foldhash-f"
    ELSE IF r.hash = "foldhash-quality" THEN "foldhash-q"
    ELSE r.hash

KnownLabels(r) ==
    InTable(distr_order, r.distr) /\ InTable(bench_order, r.bench) /\ InTable(hash_order, Renamed(r))

SameKey(r, q) == r.distr = q.distr /\ r.bench = q.bench /\ Renamed(r) = Renamed(q)

TablePrinted == apc \in {"pivoted", "done"}

\* The printed table has a value in the cell of record r.
HasCell(r) ==
    \E k \in 1..Len(report[1].rows), c \in 1..Len(report[1].columns) :
        /\ report[1].rows[k].distr = r.distr
        /\ report[1].rows[k].bench = r.bench
        /\ report[1].columns[c] = Renamed(r)
        /\ report[1].rows[k].cells[c] # <<>>

\* C1: a run that ends normally has left out no record whose distr, bench or
\* renamed hash is missing from its ordering table (the script has no way to
\* signal a dropped row other than to fail).
C1_UnknownLabelNotDropped ==
    apc = "done" => \A i \in 1..Len(csv) : ~KnownLabels(csv[i]) => HasCell(csv[i])

\* C3: when two records of the file have the same (distr, bench, hash) after
\* the rename, the run does not end normally, with the table and the summary
\* printed: it is rejected.
C3_DuplicateKeyRejected ==
    (\E i, j \in 1..Len(csv) : i < j /\ SameKey(csv[i], csv[j])) => apc # "done"

\* Two records with the same key and labels the ordering tables know end the
\* run at the pivot.
DuplicateOfKnownLabelsRaises ==
    (\E i, j \in 1..Len(csv) : i < j /\ SameKey(csv[i], csv[j]) /\ KnownLabels(csv[i]))
        => ~TablePrinted /\ apc # "done"

\* C5: the printed table has one column per hash name, and the hash columns
\* stand in the order of hash_order.
C5_ColumnsInHashOrder ==
    TablePrinted =>
        LET cols == report[1].columns IN
        /\ \A a, b \in 1..Len(cols) : a # b => cols[a] # cols[b]
        /\ {cols[a] : a \in 1..Len(cols)} =
                {Renamed(csv[i]) : i \in {i \in 1..Len(csv) : KnownLabels(csv[i])}}
        /\ \A a, b \in 1..Len(cols) :
                a < b => \E x, y \in 1..Len(hash_order) :
                            x < y /\ hash_order[x] = cols[a] /\ hash_order[y] = cols[b]

\* The printed table has one column per hash name of the rows that were kept.
OneColumnPerHash ==
    TablePrinted =>
        LET cols == report[1].columns IN
        /\ \A a, b \in 1..Len(cols) : a # b => cols[a] # cols[b]
        /\ {cols[a] : a \in 1..Len(cols)} =
                {Renamed(csv[i]) : i \in {i \in 1..Len(csv) : KnownLabels(csv[i])}}

\* The records the report is about, their groups and their hash names.
Kept == {i \in 1..Len(csv) : KnownLabels(csv[i])}
Groups == {<<csv[i].distr, csv[i].bench>> : i \in Kept}
InGroup(i, g) == csv[i].distr = g[1] /\ csv[i].bench = g[2]
HashNames == {Renamed(csv[i]) : i \in Kept}

PresentInEveryGroup(h) ==
    \A g \in Groups : \E i \in Kept : InGroup(i, g) /\ Renamed(csv[i]) = h

StrictlyFastestInEveryGroup(h) ==
    \A g \in Groups : \A i, j \in Kept :
        (InGroup(i, g) /\ InGroup(j, g) /\ Renamed(csv[i]) = h /\ Renamed(csv[j]) # h)
            => csv[i].ns < csv[j].ns

\* C6: in the printed summary every hash present in every (distr, bench) group
\* has a column whose avg_rank lies in [1, number of hashes], and it is exactly
\* 1 when the hash has the strictly smallest ns of every group.
C6_AvgRankInRange ==
    apc = "done" =>
        \A h \in HashNames :
            PresentInEveryGroup(h) =>
                \E k \in 1..Len(report[2].columns) :
                    /\ report[2].columns[k] = h
                    /\ report[2].avg_rank[k].d <= report[2].avg_rank[k].n
                    /\ report[2].avg_rank[k].n <= Cardinality(HashNames) * report[2].avg_rank[k].d
                    /\ StrictlyFastestInEveryGroup(h) => report[2].avg_rank[k] = [n |-> 1, d |-> 1]

\* Two groups and two hashes: foldhash-f ties with fxhash in u32 (ranks 1.5 and
\* 1.5) and is faster in u64 (ranks 1 and 2): avg_rank 5/4 and 7/4.
C6_Witness ==
    /\ apc = "done"
    /\ Len(csv) = 4
    /\ Cardinality(Groups) = 2
    /\ report[2].columns = <<"foldhash-f", "fxhash">>
    /\ report[2].avg_rank = <<[n |-> 5, d |-> 4], [n |-> 7, d |-> 4]>>

\* ns is the rescaled value of record r: r.ns / (10 * 1000) for setbuild, r.ns
\* itself for any other bench.
IsRescaled(r, ns) ==
    IF r.bench = "setbuild" THEN ns.n * (10 * 1000) = r.ns * ns.d
    ELSE ns.n = r.ns /\ ns.d = 1

\* C8: once the frame is collected each of its rows carries the rescaled ns of
\* a record of the file with its key, each record with known labels has such a
\* row, and the cells of the printed table hold these values.
C8_SetbuildRescaled ==
    /\ apc # "scan" =>
        /\ \A k \in 1..Len(df) : \E i \in 1..Len(csv) :
                /\ SameKey(csv[i], df[k])
                /\ IsRescaled(csv[i], df[k].ns)
        /\ \A i \in Kept : \E k \in 1..Len(df) :
                /\ SameKey(csv[i], df[k])
                /\ IsRescaled(csv[i], df[k].ns)
    /\ TablePrinted =>
        \A i \in Kept :
            \E k \in 1..Len(report[1].rows), c \in 1..Len(report[1].columns) :
                /\ report[1].rows[k].distr = csv[i].distr
                /\ report[1].rows[k].bench = csv[i].bench
                /\ report[1].columns[c] = Renamed(csv[i])
                /\ Len(report[1].rows[k].cells[c]) = 1
                /\ IsRescaled(csv[i], report[1].rows[k].cells[c][1])

\* A setbuild record of 10000 ns is printed as 1, a hashonly record of 10000 ns
\* as 10000.
C8_Witness ==
    /\ apc = "done"
    /\ csv = <<Record("u32", "setbuild", "foldhash-fast", 10000),
               Record("u32", "hashonly", "foldhash-fast", 10000)>>
    /\ report[1].rows[1].bench = "hashonly"
    /\ report[1].rows[1].cells = << <<[n |-> 10000, d |-> 1]>> >>
    /\ report[1].rows[2].bench = "setbuild"
    /\ report[1].rows[2].cells = << <<[n |-> 1, d |-> 1]>> >>

====
